---- MODULE Spec2Model ----
(***************************************************************************)
(* Model of package oidcauth (src/oidcauth/oidcauth.go): a Client that     *)
(* logs a user in against an OIDC issuer through the system browser and a  *)
(* loopback callback listener, and caches the refresh token in the system  *)
(* keyring.                                                                *)
(*                                                                         *)
(* The process state is: the Clients (issuer, clientID, mutex, redirect    *)
(* URL), the process-wide http.DefaultServeMux, the loopback listeners,    *)
(* the handler goroutines net/http starts per request, the keyring, and    *)
(* the position of every calling goroutine.                                *)
(***************************************************************************)
EXTENDS Integers, Sequences, FiniteSets, TLC

\* ---------------------------------------------------------------- bounds
NumCalls == 2         \* calls made into the package, each in a goroutine of its own
MaxRequests == 2      \* HTTP requests the browser (or anyone) sends

\* the calls are numbered in the order in which they are made
Callers == 1..NumCalls
\* loopback ports: a listener per call at most
Ports == 1..NumCalls
NoOne == 0

\* ------------------------------------------------------------ the Clients
Sessions == {"s1", "s2"}

\* issuer strings are sequences of characters, so that trimming is computed
RawIssuer(s) == IF s = "s1" THEN <<"i", "/">> ELSE <<"i">>
ClientIDOf(s) == "cid"

RECURSIVE TrimRight(_, _)
\* strings.TrimRight(str, cutset): drop trailing characters that are in cutset
TrimRight(str, cutset) ==
    IF str # <<>> /\ str[Len(str)] \in cutset
    THEN TrimRight(SubSeq(str, 1, Len(str) - 1), cutset)
    ELSE str

ScopeOpenID == "openid"               \* oidc.ScopeOpenID
ErrDiscovery == "discovery failed"    \* the error of oidc.NewProvider
NoClient == [nil |-> TRUE, issuer |-> <<>>, clientID |-> "", scopes |-> <<>>]

\* NewWithContext: the Client (issuer, clientID, oauth2Config.Scopes), or the
\* error of oidc.NewProvider
NewWithContextNoTrim(rawIssuer, cid, scopes, discoveryOk) ==
    IF ~discoveryOk
    THEN [client |-> NoClient, err |-> ErrDiscovery]
    ELSE [client |-> [nil |-> FALSE, issuer |-> rawIssuer, clientID |-> cid,
                      scopes |-> Append(scopes, ScopeOpenID)],
          err |-> ""]
NewWithContext(rawIssuer, cid, scopes, discoveryOk) ==
    LET issuer == TrimRight(rawIssuer, {"/"}) IN
    IF ~discoveryOk
    THEN [client |-> NoClient, err |-> ErrDiscovery]
    ELSE [client |-> [nil |-> FALSE, issuer |-> issuer, clientID |-> cid,
                      scopes |-> Append(scopes, ScopeOpenID)],
          err |-> ""]

\* the Clients of the process, constructed before the calls are made
Client(s) == NewWithContext(RawIssuer(s), ClientIDOf(s), <<>>, TRUE).client

\* ------------------------------------------------------------- the values
NoError == ""
ErrNotOAuth2Transport == "ErrNotOAuth2Transport"
ErrNotFound == "ErrNotFound"          \* keyring.ErrNotFound
StoreError == "StoreError"            \* any other error of the keyring backend
ErrListen == "unable to start localhost listener"
ErrBrowser == "failed at opening browser"
ErrState == "state does not match"
ErrExchange == "failed to exchange token"
ErrAccept == "accept error"           \* the non-nil error http.Serve returns
ErrSource == "token source error"

Codes == {"XYZ", "ABC"}
Secrets == {"r1", "r2"}
NoEntry == "-"

\* *oauth2.Token; nil is the nil pointer
NilToken == [nil |-> TRUE, AccessToken |-> "", RefreshToken |-> ""]
Token(access, refresh) == [nil |-> FALSE, AccessToken |-> access, RefreshToken |-> refresh]

\* the token the issuer hands out for an authorization code
ExchangedToken(code) == Token(IF code = "XYZ" THEN "atXYZ" ELSE "atABC", "r2")

\* keys of the keyring: (service, account)
OtherKey == <<<<"o">>, "cid">>
KeyOf(s) == <<Client(s).issuer, Client(s).clientID>>
Keys == {KeyOf(s) : s \in Sessions} \cup {OtherKey}

\* http clients handed to StoreTokenInCache
HttpClients ==
    [transport : {"oauth2"}, sourceOk : BOOLEAN, refresh : Secrets, access : {"at"}]
    \cup {[transport |-> "other", sourceOk |-> TRUE, refresh |-> "r2", access |-> "at"]}

VARIABLES
    alive,        \* the process has not died of an unrecovered panic
    mutex,        \* c.m of every Client: the caller holding it, or NoOne
    redirectURL,  \* c.oauth2Config.RedirectURL of every Client: its port, 0 when unset
    keyring,      \* the system keyring: key -> secret or NoEntry
    muxHandler,   \* http.DefaultServeMux: the attempt whose closure is registered on /callback, 0 if none
    pc,           \* position of every call: idle before it is made, done after it returned
    frame,        \* the call a caller is in (or made last)
    result,       \* what the last call of a caller returned
    attempts,     \* the BrowserLogin activations, in the order they acquired their mutex
    nreq,         \* number of requests net/http accepted so far
    lastReq,      \* the request handled last, and what its handler did
    created       \* a call of NewWithContext: its arguments and what it returned

vars == <<alive, mutex, redirectURL, keyring, muxHandler, pc, frame,
          result, attempts, nreq, lastReq, created>>

NoFrame == [op |-> "none", sess |-> "s1", via |-> "direct", attempt |-> 0,
            lookup |-> "none", lookupVal |-> NoEntry, transport |-> "none",
            sourceOk |-> TRUE, refresh |-> "", access |-> "", ctxDone |-> FALSE]
NoResult == [kind |-> "none", err |-> NoError, token |-> NilToken]

NoRequest == [listener |-> 0, handler |-> 0, path |-> "", state |-> 0, code |-> "",
              exchanged |-> FALSE, token |-> NilToken]

NoCreation == [called |-> FALSE, issuer |-> <<>>, clientID |-> "", scopes |-> <<>>,
               discoveryOk |-> TRUE, client |-> NoClient, err |-> NoError]

Init ==
    /\ created = NoCreation
    /\ alive = TRUE
    /\ mutex = [s \in Sessions |-> NoOne]
    /\ redirectURL = [s \in Sessions |-> 0]
    /\ keyring \in {k \in [Keys -> {NoEntry, "r1"}] : k[OtherKey] = "r1"}
    /\ muxHandler = 0
    /\ pc = [t \in Callers |-> "idle"]
    /\ frame = [t \in Callers |-> NoFrame]
    /\ result = [t \in Callers |-> NoResult]
    /\ attempts = <<>>
    /\ nreq = 0
    /\ lastReq = NoRequest

CanCall(t) == alive /\ pc[t] = "idle" /\ \A u \in Callers : u < t => pc[u] # "idle"

NewFrame(op, s) == [NoFrame EXCEPT !.op = op, !.sess = s]

\* ------------------------------------------------------------ the keyring
\* keyring.Get(service, account): the secret, ErrNotFound, or a backend error
KeyringGet(key, backendFails) ==
    IF backendFails THEN [val |-> NoEntry, err |-> StoreError]
    ELSE IF keyring[key] = NoEntry THEN [val |-> NoEntry, err |-> ErrNotFound]
    ELSE [val |-> keyring[key], err |-> NoError]

\* what the lookup found, as the keyring saw it
LookupOutcome(g) ==
    IF g.err = NoError THEN "Found"
    ELSE IF g.err = ErrNotFound THEN "NotFound" ELSE "StoreError"

getTokenFromKeyring(issuer, clientID, backendFails) ==
    LET g == KeyringGet(<<issuer, clientID>>, backendFails) IN
    IF g.err # NoError
    THEN [token |-> NilToken, err |-> g.err]
    ELSE [token |-> Token("", g.val), err |-> NoError]

\* c.oauth2Config.Client(ctx, token): a client whose transport is an
\* *oauth2.Transport backed by token
OAuth2Client(token) == [kind |-> "client", err |-> NoError, token |-> token]
ErrorResult(err) == [kind |-> "error", err |-> err, token |-> NilToken]
TokenResult(token) == [kind |-> "token", err |-> NoError, token |-> token]
OkResult == [kind |-> "ok", err |-> NoError, token |-> NilToken]
PanicResult == [kind |-> "panic", err |-> "http: multiple registrations for /callback", token |-> NilToken]

\* line 69: if err != nil
LookupFailedAlwaysFalse(err) == FALSE
LookupFailed(err) == err # NoError

\* line 73: if token == nil
TokenMissingAlwaysTrue(token) == TRUE
TokenMissing(token) == token.nil

\* LoginWithCache up to the point where it returns or enters BrowserLogin
LoginWithCache(t, s) ==
    /\ CanCall(t)
    /\ \E backendFails \in BOOLEAN :
        LET c == Client(s)
            g == KeyringGet(<<c.issuer, c.clientID>>, backendFails)
            r == getTokenFromKeyring(c.issuer, c.clientID, backendFails)
            f == [NewFrame("LoginWithCache", s) EXCEPT
                     !.lookup = LookupOutcome(g), !.lookupVal = g.val]
        IN
        /\ IF LookupFailed(r.err)
           THEN /\ frame' = [frame EXCEPT ![t] = f]
                /\ result' = [result EXCEPT ![t] = ErrorResult(r.err)]
                /\ pc' = [pc EXCEPT ![t] = "done"]
           ELSE IF TokenMissing(r.token)
           THEN /\ frame' = [frame EXCEPT ![t] = [f EXCEPT !.via = "lwc"]]
                /\ result' = [result EXCEPT ![t] = NoResult]
                /\ pc' = [pc EXCEPT ![t] = "lock"]
           ELSE /\ frame' = [frame EXCEPT ![t] = f]
                /\ result' = [result EXCEPT ![t] = OAuth2Client(r.token)]
                /\ pc' = [pc EXCEPT ![t] = "done"]
    /\ UNCHANGED <<alive, mutex, redirectURL, keyring, muxHandler, attempts,
                   nreq, lastReq>>
    /\ UNCHANGED created

\* line 101: client.Transport.(*oauth2.Transport)
IsOAuth2TransportAlwaysTrue(cl) == TRUE
IsOAuth2Transport(cl) == cl.transport = "oauth2"

\* transport.Source.Token()
SourceToken(cl) ==
    IF cl.sourceOk THEN [token |-> Token(cl.access, cl.refresh), err |-> NoError]
    ELSE [token |-> NilToken, err |-> ErrSource]

\* line 106: if err != nil
SourceFailedNever(err) == FALSE
SourceFailed(err) == err # NoError

\* line 110: the secret handed to keyring.Set
StoredSecretAccessToken(token) == token.AccessToken
StoredSecret(token) == token.RefreshToken

StoreTokenInCache(t, s) ==
    /\ CanCall(t)
    /\ \E cl \in HttpClients, backendFails \in BOOLEAN :
        LET c == Client(s)
            src == SourceToken(cl)
            f == [NewFrame("StoreTokenInCache", s) EXCEPT
                     !.transport = cl.transport, !.sourceOk = cl.sourceOk,
                     !.refresh = cl.refresh, !.access = cl.access]
        IN
        /\ frame' = [frame EXCEPT ![t] = f]
        /\ pc' = [pc EXCEPT ![t] = "done"]
        /\ IF ~IsOAuth2Transport(cl)
           THEN /\ result' = [result EXCEPT ![t] = ErrorResult(ErrNotOAuth2Transport)]
                /\ keyring' = keyring
           ELSE IF SourceFailed(src.err)
           THEN /\ result' = [result EXCEPT ![t] = ErrorResult(src.err)]
                /\ keyring' = keyring
           ELSE IF backendFails
           THEN /\ result' = [result EXCEPT ![t] = ErrorResult(StoreError)]
                /\ keyring' = keyring
           ELSE /\ result' = [result EXCEPT ![t] = OkResult]
                /\ keyring' = [keyring EXCEPT ![<<c.issuer, c.clientID>>] = StoredSecret(src.token)]
    /\ UNCHANGED <<alive, mutex, redirectURL, muxHandler, attempts,
                   nreq, lastReq>>
    /\ UNCHANGED created

DeleteTokenFromKeyring(t, s) ==
    /\ CanCall(t)
    /\ \E backendFails \in BOOLEAN :
        LET c == Client(s)
            key == <<c.issuer, c.clientID>>
        IN
        /\ frame' = [frame EXCEPT ![t] = NewFrame("DeleteTokenFromKeyring", s)]
        /\ pc' = [pc EXCEPT ![t] = "done"]
        /\ IF backendFails
           THEN /\ result' = [result EXCEPT ![t] = ErrorResult(StoreError)]
                /\ keyring' = keyring
           ELSE IF keyring[key] = NoEntry
           THEN /\ result' = [result EXCEPT ![t] = ErrorResult(ErrNotFound)]
                /\ keyring' = keyring
           ELSE /\ result' = [result EXCEPT ![t] = OkResult]
                /\ keyring' = [keyring EXCEPT ![key] = NoEntry]
    /\ UNCHANGED <<alive, mutex, redirectURL, muxHandler, attempts,
                   nreq, lastReq>>
    /\ UNCHANGED created

\* ------------------------------------------------------------ BrowserLogin
\* an activation of BrowserLogin: its locals (state, listener, httpError,
\* token), and what its handler has done so far
\* the URL handed to the browser: its redirect_uri (the port of
\* http://localhost:<port>/callback) and its state; NoAuthURL before line 138
NoAuthURL == [redirect |-> 0, state |-> 0]

NewAttempt(t, s, via) ==
    [sess |-> s, caller |-> t, via |-> via, state |-> 0, port |-> 0,
     listener |-> "none", httpError |-> NoError, token |-> NilToken, ret |-> "running",
     callbacks |-> 0, exchanges |-> 0, mismatched |-> FALSE, authURL |-> NoAuthURL]

BoundPorts == {attempts[a].port : a \in {b \in DOMAIN attempts : attempts[b].listener = "bound"}}

\* net.Listen("tcp", "localhost:0"): the OS assigns a port no listener is bound
\* to; port numbers are interchangeable, the model takes the lowest free one
FreePort == CHOOSE p \in Ports \ BoundPorts : \A q \in Ports \ BoundPorts : p <= q

\* a direct call of BrowserLogin: the caller arrives at c.m.Lock()
BrowserLogin(t, s) ==
    /\ CanCall(t)
    /\ frame' = [frame EXCEPT ![t] = NewFrame("BrowserLogin", s)]
    /\ result' = [result EXCEPT ![t] = NoResult]
    /\ pc' = [pc EXCEPT ![t] = "lock"]
    /\ UNCHANGED <<alive, mutex, redirectURL, keyring, muxHandler, attempts,
                   nreq, lastReq>>
    /\ UNCHANGED created

\* sync.Mutex.Lock returns only when no one holds the mutex
MutexFreeAlways(s) == TRUE
MutexFree(s) == mutex[s] = NoOne

\* what the caller of BrowserLogin or LoginWithCache gets (lines 74-80, 168)
CallResult(via, token, err) ==
    IF err # NoError THEN ErrorResult(err)
    ELSE IF via = "lwc" THEN OAuth2Client(token) ELSE TokenResult(token)

\* the deferred c.m.Unlock() (line 126)
Unlock(s) == [mutex EXCEPT ![s] = NoOne]

\* the listener after BrowserLogin returned because openBrowser failed:
\* nothing closes it (lines 139-141), it stays bound for as long as the
\* runtime does not collect it
ListenerAfterBrowserError == "bound"

\* lines 125-136: c.m.Lock(), net.Listen, the redirect URL, the state.
\* The attempts are numbered in the order in which they acquire their mutex,
\* and the state uuid.New() returns is written as the number of the attempt.
Lock(t) ==
    /\ alive /\ pc[t] = "lock"
    /\ MutexFree(frame[t].sess)
    /\ LET s == frame[t].sess
           a == Len(attempts) + 1
           new == NewAttempt(t, s, frame[t].via)
       IN
       /\ frame' = [frame EXCEPT ![t].attempt = a]
       /\ \/ /\ attempts' = Append(attempts, [new EXCEPT !.listener = "bound",
                                                        !.port = FreePort, !.state = a])
             /\ redirectURL' = [redirectURL EXCEPT ![s] = FreePort]
             /\ mutex' = [mutex EXCEPT ![s] = t]
             /\ pc' = [pc EXCEPT ![t] = "open"]
             /\ UNCHANGED result
          \/ /\ attempts' = Append(attempts, [new EXCEPT !.ret = ErrListen])
             /\ mutex' = Unlock(s)
             /\ result' = [result EXCEPT ![t] = CallResult(frame[t].via, NilToken, ErrListen)]
             /\ pc' = [pc EXCEPT ![t] = "done"]
             /\ UNCHANGED redirectURL
    /\ UNCHANGED <<alive, keyring, muxHandler, nreq, lastReq>>
    /\ UNCHANGED created

\* http.HandleFunc on the DefaultServeMux panics when the pattern is taken
PatternTakenNever == FALSE
PatternTaken == muxHandler # 0

\* line 138: c.oauth2Config.AuthCodeURL(state) reads the RedirectURL the
\* Client's oauth2Config holds at that moment
AuthCodeURL(s, state) == [redirect |-> redirectURL[s], state |-> state]

\* lines 138-158: openBrowser(c.oauth2Config.AuthCodeURL(state)), then
\* http.HandleFunc("/callback", closure of this attempt)
OpenBrowser(t) ==
    /\ alive /\ pc[t] = "open"
    /\ LET a == frame[t].attempt
           s == frame[t].sess
           url == AuthCodeURL(s, attempts[a].state)
       IN
       \/ \* openBrowser fails
          /\ attempts' = [attempts EXCEPT ![a].ret = ErrBrowser,
                                          ![a].authURL = url,
                                          ![a].listener = ListenerAfterBrowserError]
          /\ mutex' = Unlock(s)
          /\ result' = [result EXCEPT ![t] = CallResult(frame[t].via, NilToken, ErrBrowser)]
          /\ pc' = [pc EXCEPT ![t] = "done"]
          /\ UNCHANGED <<alive, muxHandler>>
       \/ \* HandleFunc panics: the deferred Unlock runs, nothing closes the
          \* listener; the caller recovers, or the process dies and the OS
          \* closes its listeners
          /\ PatternTaken
          /\ \E recovered \in BOOLEAN :
               /\ alive' = recovered
               /\ attempts' = IF recovered
                              THEN [attempts EXCEPT ![a].ret = "panic",
                                                    ![a].authURL = url]
                              ELSE [b \in DOMAIN attempts |->
                                      [attempts[b] EXCEPT
                                         !.ret = IF b = a THEN "panic" ELSE @,
                                         !.authURL = IF b = a THEN url ELSE @,
                                         !.listener = IF @ = "bound" THEN "closed" ELSE @]]
          /\ mutex' = Unlock(s)
          /\ result' = [result EXCEPT ![t] = PanicResult]
          /\ pc' = [pc EXCEPT ![t] = "done"]
          /\ UNCHANGED muxHandler
       \/ \* the closure is registered, http.Serve starts
          /\ ~PatternTaken
          /\ muxHandler' = a
          /\ attempts' = [attempts EXCEPT ![a].authURL = url]
          /\ pc' = [pc EXCEPT ![t] = "serve"]
          /\ UNCHANGED <<alive, mutex, result>>
    /\ UNCHANGED <<redirectURL, keyring, frame, nreq, lastReq>>
    /\ UNCHANGED created

\* line 146: r.URL.Query().Get("state") != state.String()
StateMismatchNever(query, state) == FALSE
StateMismatch(query, state) == query # state

\* the attempts whose listener is being served by http.Serve (line 160)
Serving == {a \in DOMAIN attempts :
              /\ attempts[a].listener = "bound"
              /\ attempts[a].ret = "running"
              /\ pc[attempts[a].caller] = "serve"}

\* the requests that can reach the listener of attempt a: any path, any
\* state parameter (0: none or an unknown one; otherwise the state of some
\* attempt made so far), any code
Requests(a) ==
    {[path |-> "/", state |-> 0, code |-> "XYZ"]}
    \cup [path : {"/callback"}, state : {attempts[a].state}, code : Codes]
    \cup [path : {"/callback"}, state : (0..Len(attempts)) \ {attempts[a].state}, code : {"XYZ"}]

\* c.oauth2Config.Exchange(loginContext, code): the token, or an error
\* (the issuer refuses the code, the network fails, loginContext is done)
Exchange(code, ok) ==
    IF ok THEN [token |-> ExchangedToken(code), err |-> NoError]
    ELSE [token |-> NilToken, err |-> ErrExchange]

\* Exchange is bound to the loginContext of the call whose closure runs: it
\* fails once that context is done, and may fail or succeed before
ExchangeOutcomes(h) ==
    IF frame[attempts[h].caller].ctxDone THEN {FALSE} ELSE BOOLEAN

\* http.Serve(listener, nil) accepts a request and the DefaultServeMux
\* dispatches it: to the registered closure for /callback (lines 145-158),
\* to NotFound for any other path
ServeRequest(a) ==
    /\ alive /\ a \in Serving
    /\ nreq < MaxRequests
    /\ nreq' = nreq + 1
    /\ \E rq \in Requests(a) :
        LET h == IF rq.path = "/callback" THEN muxHandler ELSE 0
            req == [listener |-> a, handler |-> h, path |-> rq.path, state |-> rq.state,
                    code |-> rq.code, exchanged |-> FALSE, token |-> NilToken]
            counted == IF rq.path = "/callback"
                       THEN [attempts EXCEPT ![a].callbacks = @ + 1]
                       ELSE attempts
        IN
        IF h = 0
        THEN /\ lastReq' = req
             /\ attempts' = counted
        ELSE IF StateMismatch(rq.state, attempts[h].state)
        THEN /\ lastReq' = req
             /\ attempts' = [counted EXCEPT ![h].httpError = ErrState,
                                            ![h].mismatched = TRUE]
        ELSE \E ok \in ExchangeOutcomes(h) :
             LET x == Exchange(rq.code, ok) IN
             /\ lastReq' = [req EXCEPT !.exchanged = TRUE, !.token = x.token]
             /\ attempts' = IF x.err # NoError
                            THEN [counted EXCEPT ![h].exchanges = @ + 1,
                                                 ![h].httpError = ErrExchange]
                            ELSE [counted EXCEPT ![h].exchanges = @ + 1,
                                                 ![h].token = x.token]
    /\ UNCHANGED <<alive, mutex, redirectURL, keyring, muxHandler, pc, frame, result>>
    /\ UNCHANGED created

\* http.Serve returns only when Accept fails, and then a non-nil error
ServeError == ErrAccept

\* lines 160-168: what BrowserLogin returns once http.Serve has returned
AfterServe(serveErr, httpError, token) ==
    IF serveErr # NoError THEN [token |-> NilToken, err |-> serveErr]
    ELSE IF httpError # NoError THEN [token |-> NilToken, err |-> httpError]
    ELSE [token |-> token, err |-> NoError]

\* Accept fails for good: http.Serve closes the listener and returns
ServeReturn(t) ==
    /\ alive /\ pc[t] = "serve"
    /\ LET a == frame[t].attempt
           r == AfterServe(ServeError, attempts[a].httpError, attempts[a].token)
       IN
       /\ attempts' = [attempts EXCEPT ![a].ret = IF r.err = NoError THEN "token" ELSE r.err,
                                       ![a].listener = "closed"]
       /\ mutex' = Unlock(frame[t].sess)
       /\ result' = [result EXCEPT ![t] = CallResult(frame[t].via, r.token, r.err)]
       /\ pc' = [pc EXCEPT ![t] = "done"]
    /\ UNCHANGED <<alive, redirectURL, keyring, muxHandler, frame, nreq, lastReq>>
    /\ UNCHANGED created

\* ------------------------------------------------------- NewWithContext
MaxIssuerLen == 3     \* characters of an issuer
MaxScopes == 2        \* scopes passed to NewWithContext

RECURSIVE SeqsUpTo(_, _)
\* the sequences of at most n elements of S
SeqsUpTo(S, n) ==
    IF n = 0 THEN {<<>>}
    ELSE LET shorter == SeqsUpTo(S, n - 1) IN
         shorter \cup {Append(q, x) : q \in shorter, x \in S}

Issuers == SeqsUpTo({"i", "/"}, MaxIssuerLen)
ScopeLists == SeqsUpTo({ScopeOpenID, "profile"}, MaxScopes)

\* a call of New / NewWithContext
Create ==
    /\ ~created.called
    /\ \E issuer \in Issuers, scopes \in ScopeLists, discoveryOk \in BOOLEAN :
        LET r == NewWithContext(issuer, "cid", scopes, discoveryOk) IN
        created' = [called |-> TRUE, issuer |-> issuer, clientID |-> "cid",
                    scopes |-> scopes, discoveryOk |-> discoveryOk,
                    client |-> r.client, err |-> r.err]
    /\ UNCHANGED <<alive, mutex, redirectURL, keyring, muxHandler, pc, frame,
                   result, attempts, nreq, lastReq>>

SpecCreate == Init /\ [][Create]_vars

\* the caller cancels the loginContext of a call of BrowserLogin or
\* LoginWithCache that has not returned (or its deadline passes); nothing in
\* BrowserLogin but Exchange (line 151) looks at the context
CancelLogin(t) ==
    /\ alive /\ pc[t] \in {"lock", "open", "serve"}
    /\ ~frame[t].ctxDone
    /\ frame' = [frame EXCEPT ![t].ctxDone = TRUE]
    /\ UNCHANGED <<alive, mutex, redirectURL, keyring, muxHandler, pc, result,
                   attempts, nreq, lastReq>>
    /\ UNCHANGED created

Next ==
    \/ \E t \in Callers, s \in Sessions : LoginWithCache(t, s)
    \/ \E t \in Callers, s \in Sessions : StoreTokenInCache(t, s)
    \/ \E t \in Callers, s \in Sessions : DeleteTokenFromKeyring(t, s)
    \/ \E t \in Callers, s \in Sessions : BrowserLogin(t, s)
    \/ \E t \in Callers : Lock(t)
    \/ \E t \in Callers : OpenBrowser(t)
    \/ \E a \in DOMAIN attempts : ServeRequest(a)
    \/ \E t \in Callers : ServeReturn(t)
    \/ \E t \in Callers : CancelLogin(t)
    \/ Create

Spec == Init /\ [][Next]_vars

\* the program when its callers log in (BrowserLogin, LoginWithCache) and
\* leave the cache alone
NextLogin ==
    \/ \E t \in Callers, s \in Sessions : LoginWithCache(t, s)
    \/ \E t \in Callers, s \in Sessions : BrowserLogin(t, s)
    \/ \E t \in Callers : Lock(t)
    \/ \E t \in Callers : OpenBrowser(t)
    \/ \E a \in DOMAIN attempts : ServeRequest(a)
    \/ \E t \in Callers : ServeReturn(t)

SpecLogin == Init /\ [][NextLogin]_vars

\* the logins with cancellation of the login contexts, and with the steps a
\* goroutine is certain to take: a caller waiting for a free mutex gets it,
\* and a caller past net.Listen goes on to openBrowser and http.HandleFunc.
\* Nothing makes a request arrive, Accept fail or a caller cancel.
NextLive ==
    \/ NextLogin
    \/ \E t \in Callers : CancelLogin(t)

SpecLoginLive ==
    /\ Init /\ [][NextLive]_vars
    /\ \A t \in Callers : WF_vars(Lock(t)) /\ WF_vars(OpenBrowser(t))

\* the program when its callers use the cache only
NextCache ==
    \/ \E t \in Callers, s \in Sessions : LoginWithCache(t, s)
    \/ \E t \in Callers, s \in Sessions : StoreTokenInCache(t, s)
    \/ \E t \in Callers, s \in Sessions : DeleteTokenFromKeyring(t, s)

SpecCache == Init /\ [][NextCache]_vars

\* the program when its callers log in and use the cache, every call being
\* made on the one Client of session OneClient
OneClient == "s1"

NextCalls ==
    \/ \E t \in Callers : LoginWithCache(t, OneClient)
    \/ \E t \in Callers : BrowserLogin(t, OneClient)
    \/ \E t \in Callers : Lock(t)
    \/ \E t \in Callers : OpenBrowser(t)
    \/ \E a \in DOMAIN attempts : ServeRequest(a)
    \/ \E t \in Callers : ServeReturn(t)
    \/ \E t \in Callers : StoreTokenInCache(t, OneClient)
    \/ \E t \in Callers : DeleteTokenFromKeyring(t, OneClient)

SpecCalls == Init /\ [][NextCalls]_vars

\* ------------------------------------------------------------- properties
Attempts == DOMAIN attempts
Running(a) == attempts[a].ret = "running"
LoginWithCacheCalls(outcome) ==
    {t \in Callers : frame[t].op = "LoginWithCache" /\ frame[t].lookup = outcome}

\* C1: a request a listener received made its handler call Exchange if and
\* only if it was a request on /callback whose state parameter equals the
\* state generated by the attempt that owns the listener.
C1_ExchangeIffStateMatches ==
    lastReq.listener # 0 =>
        (lastReq.exchanged <=>
            /\ lastReq.path = "/callback"
            /\ lastReq.state = attempts[lastReq.listener].state)

\* an exchanged callback that followed a callback with another state
C1_Witness ==
    /\ lastReq.listener # 0
    /\ lastReq.exchanged
    /\ attempts[lastReq.listener].mismatched

\* C2: on one Client, an attempt acquires the mutex only when every attempt
\* that acquired it earlier has returned: at most one attempt is running, it
\* holds the mutex, and the attempts complete in the order of acquisition.
C2_OneAttemptInOrder ==
    \A a, b \in Attempts :
        (a < b /\ attempts[a].sess = attempts[b].sess) =>
            /\ ~Running(a)
            /\ Running(b) => mutex[attempts[b].sess] = attempts[b].caller

\* two attempts on one Client, the second one running after the first returned
C2_Witness ==
    \E a, b \in Attempts :
        /\ a < b /\ attempts[a].sess = attempts[b].sess
        /\ attempts[a].caller # attempts[b].caller
        /\ Running(b) /\ attempts[b].listener = "bound"

\* C3 as claimed: no two listeners created by attempts of one Client are
\* bound at the same time.
C3_NoTwoListenersBound ==
    \A a, b \in Attempts :
        (a # b /\ attempts[a].sess = attempts[b].sess) =>
            ~(attempts[a].listener = "bound" /\ attempts[b].listener = "bound")

\* C4 as claimed: the listener of an attempt handles at most one request on
\* /callback.
C4_AtMostOneCallback ==
    \A a \in Attempts : attempts[a].callbacks <= 1

\* C5 as claimed: when an exchange of an attempt succeeded, Exchange was
\* called exactly once in that attempt, and once BrowserLogin has returned it
\* has returned the token of that exchange.
C5_ExchangeOnceTokenReturned ==
    \A a \in Attempts :
        ~attempts[a].token.nil =>
            /\ attempts[a].exchanges = 1
            /\ ~Running(a) =>
                 /\ attempts[a].ret = "token"
                 /\ result[attempts[a].caller] =
                        CallResult(attempts[a].via, attempts[a].token, NoError)

\* C6 as claimed: once an attempt got a callback with a state other than its
\* own, no exchange is made in that attempt afterwards, and BrowserLogin
\* returns the state mismatch error.
C6_MismatchFailsAttempt ==
    \A a \in Attempts :
        attempts[a].mismatched =>
            /\ ~(lastReq.handler = a /\ lastReq.exchanged)
            /\ ~Running(a) => attempts[a].ret = ErrState

\* C7 as claimed: a LoginWithCache whose lookup reported NotFound goes on to
\* the browser login.
C7_NotFoundRunsLogin ==
    \A t \in LoginWithCacheCalls("NotFound") : frame[t].via = "lwc"

C9_CacheHitSkipsLogin ==
    \A t \in LoginWithCacheCalls("Found") :
        /\ pc[t] = "done"
        /\ result[t] = OAuth2Client(Token("", frame[t].lookupVal))
        /\ frame[t].via = "direct" /\ frame[t].attempt = 0
        /\ \A s \in Sessions : mutex[s] # t
        /\ \A a \in Attempts : attempts[a].caller # t

\* a cache hit that returned while an attempt of the same Client, begun
\* before it, is waiting for its callback
C9_Witness ==
    \E t \in LoginWithCacheCalls("Found"), a \in Attempts :
        /\ attempts[a].sess = frame[t].sess
        /\ attempts[a].caller < t
        /\ a \in Serving
        /\ pc[t] = "done"

\* the call t makes in this step is a StoreTokenInCache with a client whose
\* transport is no *oauth2.Transport
StoresUnmanaged(t) ==
    /\ pc[t] = "idle"
    /\ frame'[t].op = "StoreTokenInCache"
    /\ frame'[t].transport = "other"

\* C10: StoreTokenInCache with a client whose transport is no
\* *oauth2.Transport returns ErrNotOAuth2Transport and leaves every entry of
\* the keyring as it was.
C10_UnmanagedTransportRejected ==
    [][\A t \in Callers :
         StoresUnmanaged(t) =>
            /\ result'[t] = ErrorResult(ErrNotOAuth2Transport)
            /\ keyring' = keyring]_vars

\* such a call was made while the keyring held an entry for its key
C10_Witness ==
    \E t \in Callers :
        /\ frame[t].op = "StoreTokenInCache"
        /\ frame[t].transport = "other"
        /\ pc[t] = "done"
        /\ keyring[KeyOf(frame[t].sess)] # NoEntry

\* the issuer without its trailing slashes: the prefix of raw that does not
\* end in a slash and is followed by slashes only
WithoutTrailingSlash(raw) ==
    LET n == CHOOSE k \in 0..Len(raw) :
                /\ k > 0 => raw[k] # "/"
                /\ \A i \in (k + 1)..Len(raw) : raw[i] = "/"
    IN SubSeq(raw, 1, n)

\* the keyring key the claims name for a Client
CanonicalKey(s) == <<WithoutTrailingSlash(RawIssuer(s)), ClientIDOf(s)>>

\* the call t is made, and returns, in this step
Returns(t, op) == pc[t] = "idle" /\ pc'[t] = "done" /\ frame'[t].op = op

\* C11: a successful StoreTokenInCache leaves the refresh token under the key
\* (issuer without trailing slash, clientID); a successful
\* DeleteTokenFromKeyring leaves no entry there; a lookup by a Client with that
\* key which the backend answers returns exactly the entry (or NotFound when
\* there is none); and a store or delete leaves the entries of all other keys
\* as they were.
C11_RoundTrip ==
    [][\A t \in Callers :
        LET key == CanonicalKey(frame'[t].sess) IN
        /\ (Returns(t, "StoreTokenInCache") /\ result'[t] = OkResult) =>
              /\ keyring'[key] = frame'[t].refresh
              /\ \A k \in Keys \ {key} : keyring'[k] = keyring[k]
        /\ (Returns(t, "DeleteTokenFromKeyring") /\ result'[t] = OkResult) =>
              /\ keyring'[key] = NoEntry
              /\ \A k \in Keys \ {key} : keyring'[k] = keyring[k]
        /\ (Returns(t, "LoginWithCache") /\ result'[t] # ErrorResult(StoreError)) =>
              IF keyring[key] = NoEntry
              THEN result'[t] = ErrorResult(ErrNotFound)
              ELSE result'[t] = OAuth2Client(Token("", keyring[key]))
      ]_vars

\* a refresh token stored through one Client was found through another Client
\* whose issuer differs in the trailing slash only
C11_Witness ==
    \E t, u \in Callers :
        /\ u = t + 1
        /\ frame[t].op = "StoreTokenInCache" /\ result[t] = OkResult
        /\ frame[t].refresh = "r2"
        /\ frame[u].op = "LoginWithCache" /\ frame[u].sess # frame[t].sess
        /\ RawIssuer(frame[u].sess) # RawIssuer(frame[t].sess)
        /\ result[u] = OAuth2Client(Token("", "r2"))

\* attempt a has got a request on /callback
GotCallback(a) == IF a \in Attempts THEN attempts[a].callbacks >= 1 ELSE FALSE

\* BrowserLogin has returned from attempt a and given up the mutex, or the
\* process is gone
Ended(a) ==
    IF a \in Attempts
    THEN ~alive \/ (~Running(a) /\ mutex[attempts[a].sess] # attempts[a].caller)
    ELSE FALSE

\* attempt a waits in http.Serve and its login context is done
CancelledWhileServing(a) ==
    IF a \in Serving THEN frame[attempts[a].caller].ctxDone ELSE FALSE

\* C12 as claimed: an attempt that has received its callback reaches Complete
\* or Failed (its BrowserLogin returns and releases the mutex), so that a
\* caller waiting for the mutex can go on.
C12_AttemptWithCallbackEnds ==
    \A a \in 1..NumCalls : GotCallback(a) ~> Ended(a)

\* C13 as claimed: an attempt that waits for its callback and whose login
\* context is cancelled ends: its BrowserLogin returns and releases the mutex.
C13_CancelledAttemptEnds ==
    \A a \in 1..NumCalls : CancelledWhileServing(a) ~> Ended(a)

\* how often x occurs in the sequence q
Count(q, x) == Cardinality({i \in DOMAIN q : q[i] = x})
Elements(q) == {q[i] : i \in DOMAIN q}

\* C14 as claimed: NewWithContext returns a Client whose issuer has no
\* trailing slash and whose scopes are the given scopes and "openid", with
\* "openid" present exactly once; if discovery fails it returns the error and
\* no Client.
C14_CreateNormalizes ==
    created.called =>
        IF created.discoveryOk
        THEN /\ created.err = NoError /\ ~created.client.nil
             /\ created.client.issuer = WithoutTrailingSlash(created.issuer)
             /\ created.client.clientID = created.clientID
             /\ Elements(created.client.scopes) = Elements(created.scopes) \cup {ScopeOpenID}
             /\ Count(created.client.scopes, ScopeOpenID) = 1
        ELSE created.err = ErrDiscovery /\ created.client.nil

\* the call that writes the keyring in this step, if one does
Writes(t, op) == pc[t] = "idle" /\ pc'[t] = "done" /\ frame'[t].op = op

\* C19: an entry of the keyring changes only in a step in which
\* StoreTokenInCache or DeleteTokenFromKeyring is called and succeeds (never
\* in a step of BrowserLogin or LoginWithCache), and the value a store writes
\* is the refresh token of the token its client's source returned.
C19_OnlyExplicitWrites ==
    [][\A k \in Keys :
         keyring'[k] # keyring[k] =>
            \E t \in Callers :
               /\ result'[t] = OkResult
               /\ k = KeyOf(frame'[t].sess)
               /\ \/ Writes(t, "DeleteTokenFromKeyring") /\ keyring'[k] = NoEntry
                  \/ Writes(t, "StoreTokenInCache") /\ keyring'[k] = frame'[t].refresh
      ]_vars

\* a store has replaced the entry while a BrowserLogin was waiting for its callback
C19_Witness ==
    \E t \in Callers, a \in Attempts :
        /\ frame[t].op = "StoreTokenInCache" /\ result[t] = OkResult
        /\ keyring[KeyOf(frame[t].sess)] = "r2"
        /\ a \in Serving /\ attempts[a].caller < t

\* the call of StoreTokenInCache made in this step has an *oauth2.Transport
\* whose Source.Token() fails
StoresWithFailingSource(t) ==
    /\ Writes(t, "StoreTokenInCache")
    /\ frame'[t].transport = "oauth2"
    /\ ~frame'[t].sourceOk

\* C20: StoreTokenInCache with an *oauth2.Transport whose source returns an
\* error returns that error and leaves every entry of the keyring as it
\* was, the entry of its own key included.
C20_SourceErrorNoWrite ==
    [][\A t \in Callers :
         StoresWithFailingSource(t) =>
            /\ result'[t] = ErrorResult(ErrSource)
            /\ keyring' = keyring]_vars

\* such a call has returned the source's error, and the entry the keyring
\* held for its key is still there
C20_Witness ==
    \E t \in Callers :
        /\ frame[t].op = "StoreTokenInCache" /\ pc[t] = "done"
        /\ frame[t].transport = "oauth2" /\ ~frame[t].sourceOk
        /\ result[t] = ErrorResult(ErrSource)
        /\ keyring[KeyOf(frame[t].sess)] # NoEntry

\* C15 as claimed: once BrowserLogin has returned from an attempt, whatever
\* it returned, the listener of that attempt is no longer bound.
C15_ListenerClosedAtEnd ==
    \A a \in Attempts : ~Running(a) => attempts[a].listener # "bound"

\* the attempt whose state the handler of the last request compared the
\* request's state with, when a handler ran
ValidatedAgainst == lastReq.handler

\* C16 as claimed: every BrowserLogin of the process gets as far as the
\* first (none panics at http.HandleFunc), and a callback is validated
\* against the state of the attempt whose listener received it: against no
\* other attempt's state, so that a callback carrying the state of another
\* attempt makes no exchange.
C16_AttemptsDoNotInterfere ==
    /\ \A a \in Attempts : attempts[a].ret # "panic"
    /\ ValidatedAgainst \in {0, lastReq.listener}
    /\ (lastReq.path = "/callback" /\ lastReq.state # lastReq.listener)
          => ~lastReq.exchanged

\* C17 as claimed: once an exchange of an attempt has failed, BrowserLogin,
\* when it has returned, has returned the error of the exchange to the
\* caller, and no further exchange is made in that attempt.
C17_ExchangeErrorReturned ==
    \A a \in Attempts :
        attempts[a].httpError = ErrExchange =>
            /\ attempts[a].exchanges = 1
            /\ ~Running(a) =>
                 /\ attempts[a].ret = ErrExchange
                 /\ result[attempts[a].caller] =
                        CallResult(attempts[a].via, NilToken, ErrExchange)

\* the call that writes the RedirectURL of Client s in this step (line 134)
WritesRedirectURL(t, s) ==
    pc[t] = "lock" /\ pc'[t] = "open" /\ frame[t].sess = s

\* C18: the redirect URL in the URL an attempt hands to the browser is the
\* one of the port of that attempt's own listener, and the RedirectURL of a
\* Client changes only in a step of a caller that holds the Client's mutex.
C18_RedirectOfOwnListener ==
    [][/\ \A a \in DOMAIN attempts' :
            attempts'[a].authURL # NoAuthURL =>
               /\ attempts'[a].port \in Ports
               /\ attempts'[a].authURL.redirect = attempts'[a].port
       /\ \A s \in Sessions :
            redirectURL'[s] # redirectURL[s] =>
               \E t \in Callers : WritesRedirectURL(t, s) /\ mutex'[s] = t
      ]_vars

\* a second attempt on a Client has handed its URL to the browser, with a
\* port other than the port of the first attempt on that Client
C18_Witness ==
    \E a, b \in Attempts :
        /\ a < b /\ attempts[a].sess = attempts[b].sess
        /\ attempts[a].authURL # NoAuthURL /\ attempts[b].authURL # NoAuthURL
        /\ attempts[a].port # attempts[b].port

====
